---------------------------- MODULE Spec2Model ----------------------------
(***************************************************************************)
(* kaknokote/mes-systems: four small FastAPI programs.                     *)
(*                                                                         *)
(*   cw3  simulation gateway over the in-process mock provider             *)
(*        (src/cw3/app): POST /simulations/run, GET /simulations/models,   *)
(*        GET /simulations/models/{model_id}.                              *)
(*   cw2  simulation gateway over the remote AnyLogic client               *)
(*        (src/cw2/app): POST /simulations/run.                            *)
(*   hw1  single-file gateway over the remote client (src/hw1/main.py).    *)
(*   cw4  item CRUD service (src/cw4/main.py; its crud module is not in    *)
(*        the source tree).                                                *)
(*                                                                         *)
(* The programs share no state, so each has variables of its own and a     *)
(* next-state relation of its own; Spec composes them.                     *)
(*                                                                         *)
(* Numbers that Python holds as floats are kept in tenths: 2.5 is 25,      *)
(* 90.0 is 900, the factor 1.5 is 15.  Response timestamps                 *)
(* (datetime.now()) and log lines are not modelled.                        *)
(***************************************************************************)
EXTENDS Integers, Sequences, FiniteSets, TLC

VARIABLES
    gw,        \* cw3: the POST /simulations/run requests in flight, by slot
    runs,      \* cw3: calls made on the mock provider and 200 answers (history)
    ext,       \* cw2 / hw1: the run-simulation request in flight
    listLog,   \* cw3: responses of GET /simulations/models, oldest first
    getLog,    \* cw3: requests and responses of GET /simulations/models/{model_id}
    items,     \* cw4: the items table, in store order
    nextId,    \* cw4: the store's next auto-increment identifier
    last,      \* cw4: the last request served
    resp,      \* cw4: the response to it
    deleted    \* cw4: the ids whose DELETE succeeded (history)

vars == <<gw, runs, ext, listLog, getLog, items, nextId, last, resp, deleted>>

gwVars == <<gw, runs>>
extVars == <<ext>>
catalogVars == <<listLog, getLog>>
itemVars == <<items, nextId, last, resp, deleted>>

(***************************************************************************)
(* Bounds of the model.                                                    *)
(***************************************************************************)
NReq == 2          \* request slots of the cw3 gateway served concurrently
MaxCap == 7        \* largest server_capacity submitted
NegCap == 1        \* server_capacity is drawn from -NegCap .. MaxCap
MaxRuns == 2       \* simulations created on the mock provider in one run

Slots == 1 .. NReq
Caps == (0 - NegCap) .. MaxCap

Max(a, b) == IF a >= b THEN a ELSE b
Min(a, b) == IF a <= b THEN a ELSE b

None == "None"

\* An Optional[...] value: Null is Python's None, Some(v) a value.
Null == << >>
Some(v) == <<v>>

(***************************************************************************)
(* HTTP responses.  detail is the sequence of the pieces the f-string      *)
(* concatenates; body is the JSON payload of a 2xx response.               *)
(***************************************************************************)
NoBody == [kind |-> "none"]
NoResponse == [status |-> 0, detail |-> << >>, body |-> NoBody]
Ok(code, body) == [status |-> code, detail |-> << >>, body |-> body]
HTTPException(code, detail) == [status |-> code, detail |-> detail, body |-> NoBody]

\* An exception in flight: an HTTPException carries its status, any other
\* exception only its message (str(e)).
RaisedHTTP(code, detail) == [kind |-> "HTTPException", status |-> code, detail |-> detail]
Raised(msg) == [kind |-> "Exception", status |-> 0, detail |-> <<msg>>]

IsClientError(r) == r.status >= 400 /\ r.status <= 499
IsServerError(r) == r.status >= 500 /\ r.status <= 599

(***************************************************************************)
(* cw3: the mock provider (src/cw3/app/dependencies.py).                   *)
(***************************************************************************)
KeyMeanQueue == "Mean queue size|Mean queue size"
KeyUtilization == "Utilization|Server utilization"
KeyServerCapacity == "Server capacity"

\* MockInputs.__init__: self.params = {}
MockInputs == << >>

\* MockInputs.set_input: self.params[name] = value
set_input(params, name, value) ==
    [k \in DOMAIN params \cup {name} |-> IF k = name THEN value ELSE params[k]]

\* dict.get(key, default)
DictGet(d, key, default) == IF key \in DOMAIN d THEN d[key] ELSE default

\* MockOutputs.__init__: the two metrics, in tenths.
MockOutputs(server_capacity) ==
    (KeyMeanQueue :> Max(0, 100 - server_capacity * 15))
        @@ (KeyUtilization :> Min(1000, 500 + server_capacity * 80))

\* MockOutputs.value: self.data.get(key, 0.0)
value(data, key) == DictGet(data, key, 0)

\* MockOutputs.get_raw_outputs: the bag itself
get_raw_outputs(data) == data

\* get_outputs_and_run_if_absent reading a key set_input never wrote.
get_outputs_wrong_key(inputs) ==
    MockOutputs(DictGet(inputs, "server_capacity", 1))

\* MockSimulation.get_outputs_and_run_if_absent
get_outputs_and_run_if_absent(inputs) ==
    MockOutputs(DictGet(inputs, KeyServerCapacity, 1))

\* The decimal digits of n >= 0, most significant first.
RECURSIVE Digits(_)
Digits(n) == IF n < 10 THEN <<n>> ELSE Append(Digits(n \div 10), n % 10)

\* format(n, "04d"): at least four digits, padded with zeros on the left.
RECURSIVE ZeroPad(_, _)
ZeroPad(ds, width) == IF Len(ds) >= width THEN ds ELSE ZeroPad(<<0>> \o ds, width)

\* f"sim_{n:04d}"
SimIdOf(n) == <<"s", "i", "m", "_">> \o ZeroPad(Digits(n), 4)

\* MockCloudClient.__init__: self._simulation_counter = 0
MockCloudClient == [simulation_counter |-> 0]

\* MockCloudClient.create_simulation: the client after the call and the
\* MockSimulation it returns.
create_simulation(client, inputs) ==
    LET n == client.simulation_counter + 1
    IN  [client |-> [client EXCEPT !.simulation_counter = n],
         simulation |-> [id |-> SimIdOf(n), inputs |-> inputs]]

\* get_cloud_client: a new MockCloudClient for every request (Depends).
get_cloud_client == MockCloudClient

(***************************************************************************)
(* cw3: POST /simulations/run (src/cw3/app/routers/simulations.py).        *)
(* The handler is followed call by call; calls is the request's log of     *)
(* provider calls, in order.                                               *)
(***************************************************************************)
\* No call made on the provider yet, no request answered.
NoRuns == [created |-> 0, computed |-> 0, answered |-> 0]

IdleReq ==
    [pc |-> "idle", cap |-> 0, client |-> MockCloudClient, inputs |-> MockInputs,
     simId |-> << >>, outputs |-> << >>, mq |-> 0, util |-> 0,
     calls |-> << >>, resp |-> NoResponse]

\* SimulationRequest: server_capacity: int = Field(..., gt=0).  FastAPI
\* answers a body that fails validation with 422 and never calls the handler.
SimulationRequestValid(c) == c > 0

\* except HTTPException: raise / except Exception as e: HTTPException(500, ...)
Cw3OnException(e) ==
    IF e.kind = "HTTPException"
    THEN HTTPException(e.status, e.detail)
    ELSE HTTPException(500, <<"Internal error while running simulation: ">> \o e.detail)

\* Cw3Response with simulation.id left out.
Cw3ResponseNoId(simId, cap, mq, util, raw) ==
    [simulation_id |-> << >>, server_capacity |-> cap, mean_queue_size |-> mq,
     server_utilization |-> util, raw_outputs |-> raw, status |-> "completed"]

\* SimulationResponse(...) of step 7
Cw3Response(simId, cap, mq, util, raw) ==
    [simulation_id |-> simId, server_capacity |-> cap, mean_queue_size |-> mq,
     server_utilization |-> util, raw_outputs |-> raw, status |-> "completed"]

\* The slots whose request may still reach create_simulation.
Pending == {s \in Slots : gw[s].pc \in {"validate", "depends", "check", "step1",
                                        "step2", "step3", "step4"}}

Cw3Submit(s, c) ==
    /\ gw[s].pc = "idle"
    /\ runs.created + Cardinality(Pending) < MaxRuns
    /\ gw' = [gw EXCEPT ![s] = [IdleReq EXCEPT !.pc = "validate", !.cap = c]]
    /\ UNCHANGED <<runs, extVars, catalogVars, itemVars>>

Cw3Validate(s) ==
    /\ gw[s].pc = "validate"
    /\ gw' = [gw EXCEPT ![s] =
                IF SimulationRequestValid(@.cap)
                THEN [@ EXCEPT !.pc = "depends"]
                ELSE [@ EXCEPT !.pc = "done",
                               !.resp = HTTPException(422, <<"server_capacity", "greater_than">>)]]
    /\ UNCHANGED <<runs, extVars, catalogVars, itemVars>>

Cw3Depends(s) ==
    /\ gw[s].pc = "depends"
    /\ gw' = [gw EXCEPT ![s] = [@ EXCEPT !.pc = "check", !.client = get_cloud_client]]
    /\ UNCHANGED <<runs, extVars, catalogVars, itemVars>>

\* The handler's own check of server_capacity, inside the try block.
Cw3Check(s) ==
    /\ gw[s].pc = "check"
    /\ gw' = [gw EXCEPT ![s] =
                IF @.cap <= 0
                THEN [@ EXCEPT !.pc = "done",
                               !.resp = Cw3OnException(
                                   RaisedHTTP(400, <<"server_capacity must be positive">>))]
                ELSE [@ EXCEPT !.pc = "step1"]]
    /\ UNCHANGED <<runs, extVars, catalogVars, itemVars>>

\* Step 1: client.get_latest_model_version(request.model_name)
Cw3Step1(s) ==
    /\ gw[s].pc = "step1"
    /\ gw' = [gw EXCEPT ![s] =
                [@ EXCEPT !.pc = "step2",
                          !.calls = Append(@, "get_latest_model_version")]]
    /\ UNCHANGED <<runs, extVars, catalogVars, itemVars>>

\* Step 2 going on to create_simulation: the set_input call is left out.
Cw3Step2SkipsSetInput(s) ==
    /\ gw[s].pc = "step2"
    /\ gw' = [gw EXCEPT ![s] =
                [@ EXCEPT !.pc = "step4", !.inputs = MockInputs,
                          !.calls = Append(@, "create_inputs_from_experiment")]]
    /\ UNCHANGED <<runs, extVars, catalogVars, itemVars>>

\* Step 2: client.create_inputs_from_experiment(version, request.experiment_name)
Cw3Step2(s) ==
    /\ gw[s].pc = "step2"
    /\ gw' = [gw EXCEPT ![s] =
                [@ EXCEPT !.pc = "step3", !.inputs = MockInputs,
                          !.calls = Append(@, "create_inputs_from_experiment")]]
    /\ UNCHANGED <<runs, extVars, catalogVars, itemVars>>

\* Step 3 on one parameter dict shared by all requests: the value is written
\* into the inputs of every request that holds inputs.
Cw3Step3Shared(s) ==
    /\ gw[s].pc = "step3"
    /\ gw' = [t \in Slots |->
                IF t = s
                THEN [gw[t] EXCEPT !.pc = "step4",
                                   !.inputs = set_input(@, KeyServerCapacity, gw[s].cap),
                                   !.calls = Append(@, "set_input")]
                ELSE IF gw[t].pc \in {"step4", "step5"}
                     THEN [gw[t] EXCEPT !.inputs = set_input(@, KeyServerCapacity, gw[s].cap)]
                     ELSE gw[t]]
    /\ UNCHANGED <<runs, extVars, catalogVars, itemVars>>

\* Step 3: inputs.set_input("Server capacity", request.server_capacity)
Cw3Step3(s) ==
    /\ gw[s].pc = "step3"
    /\ gw' = [gw EXCEPT ![s] =
                [@ EXCEPT !.pc = "step4",
                          !.inputs = set_input(@, KeyServerCapacity, gw[s].cap),
                          !.calls = Append(@, "set_input")]]
    /\ UNCHANGED <<runs, extVars, catalogVars, itemVars>>

\* Step 4: simulation = client.create_simulation(inputs)
Cw3Step4(s) ==
    /\ gw[s].pc = "step4"
    /\ LET made == create_simulation(gw[s].client, gw[s].inputs)
       IN  gw' = [gw EXCEPT ![s] =
                    [@ EXCEPT !.pc = "step5", !.client = made.client,
                              !.simId = made.simulation.id,
                              !.calls = Append(@, "create_simulation")]]
    /\ runs' = [runs EXCEPT !.created = @ + 1]
    /\ UNCHANGED <<extVars, catalogVars, itemVars>>

\* Step 5 with a cache: the outputs another request in flight computed for the
\* same inputs are taken over, and no computation is made.
Cw3Step5Cached(s) ==
    /\ gw[s].pc = "step5"
    /\ LET hits == {t \in Slots \ {s} :
                       /\ gw[t].pc \in {"step6", "step7"}
                       /\ gw[t].inputs = gw[s].inputs}
       IN  IF hits = {}
           THEN /\ gw' = [gw EXCEPT ![s] =
                           [@ EXCEPT !.pc = "step6",
                                     !.outputs = get_outputs_and_run_if_absent(gw[s].inputs),
                                     !.calls = Append(@, "get_outputs_and_run_if_absent")]]
                /\ runs' = [runs EXCEPT !.computed = @ + 1]
           ELSE /\ gw' = [gw EXCEPT ![s] =
                           [@ EXCEPT !.pc = "step6",
                                     !.outputs = gw[CHOOSE t \in hits : TRUE].outputs,
                                     !.calls = Append(@, "get_outputs_and_run_if_absent")]]
                /\ UNCHANGED runs
    /\ UNCHANGED <<extVars, catalogVars, itemVars>>

\* Step 5: outputs = simulation.get_outputs_and_run_if_absent()
Cw3Step5(s) ==
    /\ gw[s].pc = "step5"
    /\ gw' = [gw EXCEPT ![s] =
                [@ EXCEPT !.pc = "step6",
                          !.outputs = get_outputs_and_run_if_absent(gw[s].inputs),
                          !.calls = Append(@, "get_outputs_and_run_if_absent")]]
    /\ runs' = [runs EXCEPT !.computed = @ + 1]
    /\ UNCHANGED <<extVars, catalogVars, itemVars>>

\* Step 6: the two outputs.value(...) reads
Cw3Step6(s) ==
    /\ gw[s].pc = "step6"
    /\ gw' = [gw EXCEPT ![s] =
                [@ EXCEPT !.pc = "step7",
                          !.mq = value(gw[s].outputs, KeyMeanQueue),
                          !.util = value(gw[s].outputs, KeyUtilization)]]
    /\ UNCHANGED <<runs, extVars, catalogVars, itemVars>>

\* Step 7: return SimulationResponse(...)
Cw3Step7(s) ==
    /\ gw[s].pc = "step7"
    /\ gw' = [gw EXCEPT ![s] =
                [@ EXCEPT !.pc = "done",
                          !.resp = Ok(200, Cw3Response(gw[s].simId, gw[s].cap, gw[s].mq,
                                                       gw[s].util,
                                                       get_raw_outputs(gw[s].outputs)))]]
    /\ runs' = [runs EXCEPT !.answered = @ + 1]
    /\ UNCHANGED <<extVars, catalogVars, itemVars>>

\* The response has been sent; the slot serves the next request.
Cw3Finish(s) ==
    /\ gw[s].pc = "done"
    /\ gw' = [gw EXCEPT ![s] = IdleReq]
    /\ UNCHANGED <<runs, extVars, catalogVars, itemVars>>

NextCw3 ==
    \E s \in Slots :
        \/ \E c \in Caps : Cw3Submit(s, c)
        \/ Cw3Validate(s)
        \/ Cw3Depends(s)
        \/ Cw3Check(s)
        \/ Cw3Step1(s)
        \/ Cw3Step2(s)
        \/ Cw3Step3(s)
        \/ Cw3Step4(s)
        \/ Cw3Step5(s)
        \/ Cw3Step6(s)
        \/ Cw3Step7(s)
        \/ Cw3Finish(s)

(***************************************************************************)
(* cw2 and hw1: run_simulation over the remote AnyLogic client             *)
(* (src/cw2/app/routers/simulations.py, src/hw1/main.py).  The client is a *)
(* third-party library: each call either returns or raises, and what it    *)
(* returns is drawn from small sets.  cw2's SimulationRequest              *)
(* (server_capacity: int = 8) and hw1's query parameter put no constraint  *)
(* on server_capacity, so every integer reaches the handler.               *)
(***************************************************************************)
Variants == {"cw2", "hw1"}
ErrMsgs == {"connection refused", "model not found"}
ExtIds == {"a3f1", "77c0"}
ExtValues == {0, 25}
\* The output bags the remote run may return: both metrics, or none of them.
ExtBags == [{KeyMeanQueue, KeyUtilization} -> ExtValues] \cup {<< >>}

IdleExt ==
    [pc |-> "idle", variant |-> "cw2", cap |-> 0, simId |-> "", outputs |-> << >>,
     mq |-> 0, util |-> 0, calls |-> << >>, raised |-> None, resp |-> NoResponse]

\* ExtOnException without str(e) in the detail.
ExtOnExceptionNoMessage(e) == HTTPException(500, <<"Simulation error">>)

\* except Exception as e: raise HTTPException(status_code=500, detail=f"...: {str(e)}")
ExtOnException(e) == HTTPException(500, <<"Simulation error: ">> \o e.detail)

\* cw2: SimulationResponse(...);  hw1: the dict it returns
ExtResponse(variant, simId, cap, mq, util, raw) ==
    IF variant = "cw2"
    THEN [simulation_id |-> simId, server_capacity |-> cap, mean_queue_size |-> mq,
          server_utilization |-> util, raw_outputs |-> raw, status |-> "completed"]
    ELSE [server_capacity |-> cap, mean_queue_size |-> mq,
          server_utilization |-> util, raw_outputs |-> raw]

\* The provider call `name` raises `msg` inside the try block.
ExtRaise(name, msg) ==
    ext' = [ext EXCEPT !.pc = "done", !.calls = Append(@, name), !.raised = msg,
                       !.resp = ExtOnException(Raised(msg))]

ExtSubmit(v, c) ==
    /\ ext.pc = "idle"
    /\ ext' = [IdleExt EXCEPT !.pc = "step1", !.variant = v, !.cap = c]
    /\ UNCHANGED <<gwVars, catalogVars, itemVars>>

\* version = client.get_latest_model_version(...)
ExtStep1 ==
    /\ ext.pc = "step1"
    /\ \/ ext' = [ext EXCEPT !.pc = "step2", !.calls = Append(@, "get_latest_model_version")]
       \/ \E m \in ErrMsgs : ExtRaise("get_latest_model_version", m)
    /\ UNCHANGED <<gwVars, catalogVars, itemVars>>

\* inputs = client.create_inputs_from_experiment(version, ...)
ExtStep2 ==
    /\ ext.pc = "step2"
    /\ \/ ext' = [ext EXCEPT !.pc = "step3",
                             !.calls = Append(@, "create_inputs_from_experiment")]
       \/ \E m \in ErrMsgs : ExtRaise("create_inputs_from_experiment", m)
    /\ UNCHANGED <<gwVars, catalogVars, itemVars>>

\* inputs.set_input("Server capacity", server_capacity)
ExtStep3 ==
    /\ ext.pc = "step3"
    /\ \/ ext' = [ext EXCEPT !.pc = "step4", !.calls = Append(@, "set_input")]
       \/ \E m \in ErrMsgs : ExtRaise("set_input", m)
    /\ UNCHANGED <<gwVars, catalogVars, itemVars>>

\* simulation = client.create_simulation(inputs)
ExtStep4 ==
    /\ ext.pc = "step4"
    /\ \/ \E id \in ExtIds :
            ext' = [ext EXCEPT !.pc = "step5", !.simId = id,
                               !.calls = Append(@, "create_simulation")]
       \/ \E m \in ErrMsgs : ExtRaise("create_simulation", m)
    /\ UNCHANGED <<gwVars, catalogVars, itemVars>>

\* outputs = simulation.get_outputs_and_run_if_absent()
ExtStep5 ==
    /\ ext.pc = "step5"
    /\ \/ \E bag \in ExtBags :
            ext' = [ext EXCEPT !.pc = "step6", !.outputs = bag,
                               !.calls = Append(@, "get_outputs_and_run_if_absent")]
       \/ \E m \in ErrMsgs : ExtRaise("get_outputs_and_run_if_absent", m)
    /\ UNCHANGED <<gwVars, catalogVars, itemVars>>

\* outputs.value(...) twice: a metric the bag lacks raises.
ExtStep6 ==
    /\ ext.pc = "step6"
    /\ IF {KeyMeanQueue, KeyUtilization} \subseteq DOMAIN ext.outputs
       THEN ext' = [ext EXCEPT !.pc = "step7", !.mq = ext.outputs[KeyMeanQueue],
                               !.util = ext.outputs[KeyUtilization]]
       ELSE \E m \in ErrMsgs :
                ext' = [ext EXCEPT !.pc = "done", !.raised = m,
                                   !.resp = ExtOnException(Raised(m))]
    /\ UNCHANGED <<gwVars, catalogVars, itemVars>>

\* return SimulationResponse(...) / the dict
ExtStep7 ==
    /\ ext.pc = "step7"
    /\ ext' = [ext EXCEPT !.pc = "done",
                          !.resp = Ok(200, ExtResponse(ext.variant, ext.simId, ext.cap,
                                                       ext.mq, ext.util, ext.outputs))]
    /\ UNCHANGED <<gwVars, catalogVars, itemVars>>

ExtFinish ==
    /\ ext.pc = "done"
    /\ ext' = IdleExt
    /\ UNCHANGED <<gwVars, catalogVars, itemVars>>

NextExt ==
    \/ \E v \in Variants, c \in Caps : ExtSubmit(v, c)
    \/ ExtStep1
    \/ ExtStep2
    \/ ExtStep3
    \/ ExtStep4
    \/ ExtStep5
    \/ ExtStep6
    \/ ExtStep7
    \/ ExtFinish

(***************************************************************************)
(* cw3: GET /simulations/models and GET /simulations/models/{model_id}.    *)
(* Every request gets a MockCloudClient of its own, whose get_models       *)
(* returns the same three models.                                          *)
(***************************************************************************)
MaxListCalls == 3   \* list-models responses kept in listLog
MaxGetCalls == 2    \* get-model-by-id responses kept in getLog

\* MockModelVersion.__init__: id = f"version_{model_id}", number = 1
MockModelVersion(model_id, name) ==
    [present |-> TRUE, id |-> <<"version_", model_id>>, name |-> name, number |-> 1]

\* MockModel.__init__
MockModel(model_id, name) ==
    [id |-> model_id, name |-> name, latest_version |-> MockModelVersion(model_id, name)]

\* MockCloudClient.get_models
get_models ==
    <<MockModel("model_1", "Service System Demo"),
      MockModel("model_2", "Manufacturing Line Demo"),
      MockModel("model_3", "Supply Chain Demo")>>

\* The model ids a client asks for: the three of the mock and three it lacks.
ModelIds == {"model_1", "model_2", "model_3", "model_4", "MODEL_1", ""}

\* ModelInfo; the optional fields are Null or Some(value).
ModelInfo(id, name, latest_version_id, version_name, version_number) ==
    [id |-> id, name |-> name, latest_version_id |-> latest_version_id,
     version_name |-> version_name, version_number |-> version_number]

\* One turn of the loop of get_models: the ModelInfo of `model`.
ListedInfo(model, include_versions) ==
    LET v == model.latest_version
        base == ModelInfo(model.id, model.name, IF v.present THEN Some(v.id) ELSE Null,
                          Null, Null)
    IN  IF include_versions /\ v.present
        THEN [base EXCEPT !.version_name = Some(v.name), !.version_number = Some(v.number)]
        ELSE base

\* The loop of get_models with result.insert(0, ...) for result.append(...).
RECURSIVE ListLoopPrepend(_, _, _)
ListLoopPrepend(models, result, include_versions) ==
    IF models = << >>
    THEN result
    ELSE ListLoopPrepend(Tail(models),
                         <<ListedInfo(Head(models), include_versions)>> \o result,
                         include_versions)

\* for model in models: ... result.append(model_info)
RECURSIVE ListLoop(_, _, _)
ListLoop(models, result, include_versions) ==
    IF models = << >>
    THEN result
    ELSE ListLoop(Tail(models),
                  Append(result, ListedInfo(Head(models), include_versions)),
                  include_versions)

\* The handler get_models: 200 with the list.
Cw3GetModels(include_versions) == Ok(200, ListLoop(get_models, << >>, include_versions))

\* get_model_by_id with a single except clause: the 404 becomes a 500.
GetByIdOnExceptionAll500(e) ==
    HTTPException(500, <<"Error while looking up the model: ">> \o e.detail)

\* get_model_by_id: except HTTPException: raise / except Exception: 500
GetByIdOnException(e) ==
    IF e.kind = "HTTPException"
    THEN HTTPException(e.status, e.detail)
    ELSE HTTPException(500, <<"Error while looking up the model: ">> \o e.detail)

\* for model in models: if model.id == model_id: return ModelInfo(...)
\* and, after the loop, raise HTTPException(404)
RECURSIVE FindModel(_, _)
FindModel(models, model_id) ==
    IF models = << >>
    THEN GetByIdOnException(RaisedHTTP(404, <<"Model with ID ", model_id, " not found">>))
    ELSE LET model == Head(models)
             v == model.latest_version
         IN  IF model.id = model_id
             THEN Ok(200, ModelInfo(model.id, model.name,
                                    IF v.present THEN Some(v.id) ELSE Null,
                                    IF v.present THEN Some(v.name) ELSE Null,
                                    IF v.present THEN Some(v.number) ELSE Null))
             ELSE FindModel(Tail(models), model_id)

\* The handler get_model_by_id
Cw3GetModelByIdResponse(model_id) == FindModel(get_models, model_id)

Cw3ListModels(include_versions) ==
    /\ Len(listLog) < MaxListCalls
    /\ listLog' = Append(listLog, [include_versions |-> include_versions,
                                   resp |-> Cw3GetModels(include_versions)])
    /\ UNCHANGED <<getLog, gwVars, extVars, itemVars>>

Cw3GetModelById(model_id) ==
    /\ Len(getLog) < MaxGetCalls
    /\ getLog' = Append(getLog, [model_id |-> model_id,
                                 resp |-> Cw3GetModelByIdResponse(model_id)])
    /\ UNCHANGED <<listLog, gwVars, extVars, itemVars>>

NextCatalog ==
    \/ \E f \in BOOLEAN : Cw3ListModels(f)
    \/ \E id \in ModelIds : Cw3GetModelById(id)

(***************************************************************************)
(* cw4: the item CRUD service (src/cw4/main.py, src/cw4/schemas.py).       *)
(* The handlers call crud.create_item, get_items, get_item, update_item    *)
(* and delete_item of a crud module that the source tree does not hold;    *)
(* the Crud* operators follow the specification's description of the       *)
(* store: auto-incrementing identifiers, offset/limit listing in store     *)
(* order, partial update of the supplied fields, delete by id.  Each       *)
(* handler is one transaction and is one step.                             *)
(***************************************************************************)
MaxCreates == 2     \* items created in one run
MaxLimit == 2       \* skip and limit are drawn from 0 .. MaxLimit, and limit = 100
DefaultLimit == 100 \* read_items(skip: int = 0, limit: int = 100)

Titles == {"A", "B"}
Descriptions == {Null, Some("d")}       \* Optional[str]
Prices == {Null, Some(10), Some(20)}    \* Optional[int]
ItemFields == {"title", "description", "price"}

\* ItemCreate: title required, description and price default to None.
ItemCreateBodies == [title : Titles, description : Descriptions, price : Prices]

\* ItemUpdate: every field defaults to None; set holds the fields the request
\* supplied (pydantic's fields_set).  The supplied values are those of one of
\* UpdateValues; a supplied title is a string.
UpdateValues ==
    {[title |-> "B", description |-> Some("d"), price |-> Some(20)],
     [title |-> "A", description |-> Null, price |-> Some(10)]}

ItemUpdateBody(fs, v) ==
    [set |-> fs,
     title |-> IF "title" \in fs THEN v.title ELSE "",
     description |-> IF "description" \in fs THEN v.description ELSE Null,
     price |-> IF "price" \in fs THEN v.price ELSE Null]

ItemUpdateBodies == {ItemUpdateBody(fs, v) : fs \in SUBSET ItemFields, v \in UpdateValues}

ItemIds == 1 .. (MaxCreates + 1)
Skips == 0 .. MaxLimit
Limits == (0 .. MaxLimit) \cup {DefaultLimit}

NoItem == [id |-> 0, title |-> "", description |-> Null, price |-> Null]

\* crud.create_item: the store assigns the next identifier.
CrudCreateItem(table, id, item) ==
    LET db_item == [id |-> id, title |-> item.title, description |-> item.description,
                    price |-> item.price]
    IN  [items |-> Append(table, db_item), item |-> db_item]

\* crud.get_items: query.offset(skip).limit(limit).all()
CrudGetItems(table, skip, limit) ==
    LET rest == IF skip >= Len(table) THEN << >> ELSE SubSeq(table, skip + 1, Len(table))
    IN  IF limit >= Len(rest) THEN rest ELSE SubSeq(rest, 1, limit)

\* crud.get_item: the record with this id, or None.
CrudGetItem(table, item_id) ==
    LET at == {k \in DOMAIN table : table[k].id = item_id}
    IN  IF at = {}
        THEN [found |-> FALSE, item |-> NoItem]
        ELSE [found |-> TRUE, item |-> table[CHOOSE k \in at : TRUE]]

\* crud.update_item: None when the id is unknown; else the supplied fields overwrite.
CrudUpdateItem(table, item_id, item) ==
    LET got == CrudGetItem(table, item_id)
        new == [f \in DOMAIN got.item |->
                   IF f \in item.set THEN item[f] ELSE got.item[f]]
    IN  IF ~got.found
        THEN [found |-> FALSE, item |-> NoItem, items |-> table]
        ELSE [found |-> TRUE, item |-> new,
              items |-> [k \in DOMAIN table |->
                            IF table[k].id = item_id THEN new ELSE table[k]]]

\* crud.delete_item: False when the id is unknown; else the record is removed.
CrudDeleteItem(table, item_id) ==
    LET got == CrudGetItem(table, item_id)
        keep == {k \in DOMAIN table : table[k].id # item_id}
        Before(k) == Cardinality({j \in keep : j <= k})
    IN  IF ~got.found
        THEN [success |-> FALSE, items |-> table]
        ELSE [success |-> TRUE,
              items |-> [n \in 1 .. Cardinality(keep) |->
                            table[CHOOSE k \in keep : Before(k) = n]]]

\* ItemResponse with the price field lost.
ItemResponseNoPrice(db_item) ==
    [id |-> db_item.id, title |-> db_item.title, description |-> db_item.description,
     price |-> Null]

\* response_model=ItemResponse (orm_mode): id, title, description, price
ItemResponse(db_item) ==
    [id |-> db_item.id, title |-> db_item.title, description |-> db_item.description,
     price |-> db_item.price]

ItemResponses(rows) == [k \in DOMAIN rows |-> ItemResponse(rows[k])]

ItemNotFound == HTTPException(404, <<"Item not found">>)

\* Each handler: the table after the request and the response.

\* create_item storing every record under the identifier 1.
create_item_fixed_id(table, id, item) ==
    LET made == CrudCreateItem(table, 1, item)
    IN  [items |-> made.items, resp |-> Ok(201, ItemResponse(made.item))]

\* create_item: return crud.create_item(db=db, item=item), status 201
create_item(table, id, item) ==
    LET made == CrudCreateItem(table, id, item)
    IN  [items |-> made.items, resp |-> Ok(201, ItemResponse(made.item))]

\* read_items calling crud.get_items(db, skip=limit, limit=skip).
read_items_swapped(table, skip, limit) ==
    [items |-> table, resp |-> Ok(200, ItemResponses(CrudGetItems(table, limit, skip)))]

\* read_items: crud.get_items(db, skip=skip, limit=limit)
read_items(table, skip, limit) ==
    [items |-> table, resp |-> Ok(200, ItemResponses(CrudGetItems(table, skip, limit)))]

\* read_item: 404 when crud.get_item returns None
read_item(table, item_id) ==
    LET db_item == CrudGetItem(table, item_id)
    IN  [items |-> table,
         resp |-> IF ~db_item.found THEN ItemNotFound ELSE Ok(200, ItemResponse(db_item.item))]

\* update_item returning the request body (return item) for the stored record.
update_item_returns_body(table, item_id, item) ==
    LET done == CrudUpdateItem(table, item_id, item)
        echoed == [f \in DOMAIN NoItem |-> IF f \in ItemFields THEN item[f] ELSE NoItem[f]]
    IN  [items |-> done.items,
         resp |-> IF ~done.found THEN ItemNotFound ELSE Ok(200, echoed)]

\* update_item: 404 when crud.update_item returns None
update_item(table, item_id, item) ==
    LET done == CrudUpdateItem(table, item_id, item)
    IN  [items |-> done.items,
         resp |-> IF ~done.found THEN ItemNotFound ELSE Ok(200, ItemResponse(done.item))]

\* delete_item without the check of success.
delete_item_unchecked(table, item_id) ==
    LET done == CrudDeleteItem(table, item_id)
    IN  [items |-> done.items,
         resp |-> Ok(200, [message |-> "Item deleted successfully"])]

\* delete_item: 404 when crud.delete_item returns False
delete_item(table, item_id) ==
    LET done == CrudDeleteItem(table, item_id)
    IN  [items |-> done.items,
         resp |-> IF ~done.success
                  THEN ItemNotFound
                  ELSE Ok(200, [message |-> "Item deleted successfully"])]

Request(op, id, body, skip, limit) ==
    [op |-> op, id |-> id, body |-> body, skip |-> skip, limit |-> limit]
NoBodyGiven == [set |-> {}]
NoRequest == Request("none", 0, NoBodyGiven, 0, 0)

CreateItem(item) ==
    /\ nextId <= MaxCreates
    /\ LET out == create_item(items, nextId, item)
       IN  /\ items' = out.items
           /\ resp' = out.resp
    /\ nextId' = nextId + 1
    /\ last' = Request("create", 0, item, 0, 0)
    /\ UNCHANGED <<deleted, gwVars, extVars, catalogVars>>

ReadItems(skip, limit) ==
    /\ LET out == read_items(items, skip, limit)
       IN  /\ items' = out.items
           /\ resp' = out.resp
    /\ last' = Request("list", 0, NoBodyGiven, skip, limit)
    /\ UNCHANGED <<nextId, deleted, gwVars, extVars, catalogVars>>

ReadItem(item_id) ==
    /\ LET out == read_item(items, item_id)
       IN  /\ items' = out.items
           /\ resp' = out.resp
    /\ last' = Request("read", item_id, NoBodyGiven, 0, 0)
    /\ UNCHANGED <<nextId, deleted, gwVars, extVars, catalogVars>>

UpdateItem(item_id, item) ==
    /\ LET out == update_item(items, item_id, item)
       IN  /\ items' = out.items
           /\ resp' = out.resp
    /\ last' = Request("update", item_id, item, 0, 0)
    /\ UNCHANGED <<nextId, deleted, gwVars, extVars, catalogVars>>

DeleteItem(item_id) ==
    /\ LET out == delete_item(items, item_id)
       IN  /\ items' = out.items
           /\ resp' = out.resp
           /\ deleted' = IF out.resp.status = 200 THEN deleted \cup {item_id} ELSE deleted
    /\ last' = Request("delete", item_id, NoBodyGiven, 0, 0)
    /\ UNCHANGED <<nextId, gwVars, extVars, catalogVars>>

NextItems ==
    \/ \E item \in ItemCreateBodies : CreateItem(item)
    \/ \E skip \in Skips, limit \in Limits : ReadItems(skip, limit)
    \/ \E id \in ItemIds : ReadItem(id)
    \/ \E id \in ItemIds, item \in ItemUpdateBodies : UpdateItem(id, item)
    \/ \E id \in ItemIds : DeleteItem(id)

Init ==
    /\ gw = [s \in Slots |-> IdleReq]
    /\ runs = NoRuns
    /\ ext = IdleExt
    /\ listLog = << >>
    /\ getLog = << >>
    /\ items = << >>
    /\ nextId = 1
    /\ last = NoRequest
    /\ resp = NoResponse
    /\ deleted = {}

SpecCw3 == Init /\ [][NextCw3]_vars
SpecExt == Init /\ [][NextExt]_vars
SpecCatalog == Init /\ [][NextCatalog]_vars
SpecItems == Init /\ [][NextItems]_vars

\* The three gateways over the provider: cw3, cw2 and hw1 are separate programs
\* with no state in common, so they are run one after the other.
NextGateways ==
    \/ ext.pc = "idle" /\ NextCw3
    \/ (\A s \in Slots : gw[s].pc = "idle") /\ NextExt

SpecGateways == Init /\ [][NextGateways]_vars

Next == NextCw3 \/ NextExt \/ NextCatalog \/ NextItems
Spec == Init /\ [][Next]_vars
(***************************************************************************)
(* Properties.                                                             *)
(***************************************************************************)
Elems(seq) == {seq[i] : i \in DOMAIN seq}

\* C1: a submit-simulation request whose server_capacity is <= 0 performs no
\* provider call and, once answered, has a 4xx response.  (Stated for every
\* gateway variant: the cw3 slots and the cw2 / hw1 request.)
C1_BadCapacityRejectedWithoutProviderCall ==
    /\ \A s \in Slots :
          (gw[s].pc # "idle" /\ gw[s].cap <= 0) =>
              /\ gw[s].calls = << >>
              /\ gw[s].pc = "done" => IsClientError(gw[s].resp)
    /\ (ext.pc # "idle" /\ ext.cap <= 0) =>
          /\ ext.calls = << >>
          /\ ext.pc = "done" => IsClientError(ext.resp)

\* C2: every successful cw3 submit-simulation response carries a non-empty
\* simulation_id and the request's server_capacity, which is positive.
C2_IdNonEmptyAndCapacityEchoed ==
    \A s \in Slots :
        (gw[s].pc = "done" /\ gw[s].resp.status = 200) =>
            /\ gw[s].cap > 0
            /\ Len(gw[s].resp.body.simulation_id) > 0
            /\ gw[s].resp.body.server_capacity = gw[s].cap

C2_Witness ==
    \E s \in Slots :
        /\ gw[s].pc = "done"
        /\ gw[s].resp.status = 200
        /\ gw[s].cap = 3
        /\ gw[s].resp.body.server_capacity = 3
        /\ gw[s].resp.body.simulation_id = <<"s", "i", "m", "_", 0, 0, 0, 1>>

\* C3: against the mock provider a successful submit with server_capacity c
\* returns mean_queue_size = max(0, 10 - 1.5 c) and server_utilization =
\* min(100, 50 + 8 c) (in tenths; for c = 5: 25 and 900), and raw_outputs
\* holds exactly these two values under the two metric keys.
C3_MockMetrics ==
    \A s \in Slots :
        (gw[s].pc = "done" /\ gw[s].resp.status = 200) =>
            LET c == gw[s].cap
                b == gw[s].resp.body
                mean == IF 100 - 15 * c > 0 THEN 100 - 15 * c ELSE 0
                util == IF 500 + 80 * c < 1000 THEN 500 + 80 * c ELSE 1000
            IN  /\ b.mean_queue_size = mean
                /\ b.server_utilization = util
                /\ DOMAIN b.raw_outputs =
                       {"Mean queue size|Mean queue size", "Utilization|Server utilization"}
                /\ b.raw_outputs["Mean queue size|Mean queue size"] = mean
                /\ b.raw_outputs["Utilization|Server utilization"] = util
                /\ c = 5 => (b.mean_queue_size = 25 /\ b.server_utilization = 900)

C3_Witness ==
    \E s, t \in Slots :
        /\ gw[s].pc = "done" /\ gw[s].resp.status = 200 /\ gw[s].cap = 5
        /\ gw[s].resp.body.mean_queue_size = 25
        /\ gw[s].resp.body.server_utilization = 900
        /\ gw[t].pc = "done" /\ gw[t].resp.status = 200 /\ gw[t].cap = 7
        /\ gw[t].resp.body.mean_queue_size = 0
        /\ gw[t].resp.body.server_utilization = 1000

\* C7: a failure raised by a provider call or a metric read of run_simulation
\* is answered with status 500, a detail that contains the exception's
\* message, and no result body.  cw2 and hw1 are followed through every
\* failing step; the mock provider of cw3 raises nothing, so the except
\* clauses of cw3 are checked on every message directly.
C7_FailureIsOne500WithMessage ==
    /\ (ext.pc = "done" /\ ext.raised # None) =>
          /\ ext.resp.status = 500
          /\ ext.raised \in Elems(ext.resp.detail)
          /\ ext.resp.body = NoBody
    /\ (ext.pc = "done" /\ ext.raised = None) => ext.resp.status = 200
    /\ \A m \in ErrMsgs :
          /\ Cw3OnException(Raised(m)).status = 500
          /\ m \in Elems(Cw3OnException(Raised(m)).detail)
          /\ Cw3OnException(Raised(m)).body = NoBody

C7_Witness ==
    /\ ext.pc = "done"
    /\ ext.raised = "model not found"
    /\ ext.calls = <<"get_latest_model_version", "create_inputs_from_experiment",
                     "set_input", "create_simulation">>
    /\ ext.resp.status = 500
    /\ "model not found" \in Elems(ext.resp.detail)
\* C4: list-models returns the models in the provider's order (model_1,
\* model_2, model_3), and any two list-models responses to the same
\* include_versions flag are the same sequence.
C4_ListOrderedAndRepeatable ==
    /\ \A i \in DOMAIN listLog :
          /\ listLog[i].resp.status = 200
          /\ [k \in DOMAIN listLog[i].resp.body |-> listLog[i].resp.body[k].id]
                 = <<"model_1", "model_2", "model_3">>
          /\ [k \in DOMAIN listLog[i].resp.body |-> listLog[i].resp.body[k].name]
                 = <<"Service System Demo", "Manufacturing Line Demo", "Supply Chain Demo">>
    /\ \A i, j \in DOMAIN listLog :
          listLog[i].include_versions = listLog[j].include_versions
              => listLog[i].resp = listLog[j].resp

C4_Witness ==
    /\ Len(listLog) >= 3
    /\ listLog[1].include_versions = listLog[2].include_versions
    /\ listLog[2].include_versions # listLog[3].include_versions
    /\ listLog[1].resp = listLog[2].resp
    /\ Len(listLog[1].resp.body) = 3

\* The records list-models answers with, for either flag and as logged.
ListedRecords ==
    Elems(Cw3GetModels(FALSE).body) \cup Elems(Cw3GetModels(TRUE).body)
        \cup UNION {Elems(listLog[i].resp.body) : i \in DOMAIN listLog}

\* C5: get-model-by-id of an id that list-models returns answers 200 with the
\* id, name and latest_version_id of the listed record; of any other id it
\* answers 404.
C5_GetAgreesWithList ==
    \A g \in DOMAIN getLog :
        LET listed == {m \in ListedRecords : m.id = getLog[g].model_id}
            r == getLog[g].resp
        IN  IF listed # {}
            THEN /\ r.status = 200
                 /\ \A m \in listed :
                       /\ r.body.id = m.id
                       /\ r.body.name = m.name
                       /\ r.body.latest_version_id = m.latest_version_id
            ELSE r.status = 404

C5_Witness ==
    /\ Len(listLog) > 0
    /\ Len(getLog) = 2
    /\ getLog[1].model_id = "model_2"
    /\ getLog[1].resp.status = 200
    /\ getLog[1].resp.body.name = "Manufacturing Line Demo"
    /\ getLog[1].resp.body.latest_version_id = Some(<<"version_", "model_2">>)
    /\ getLog[2].model_id = "model_4"
    /\ getLog[2].resp.status = 404
(***************************************************************************)
(* cw4.  Every step of SpecItems serves one request, recorded in last'.    *)
(***************************************************************************)
Ids(table) == {table[k].id : k \in DOMAIN table}

\* What GET /items/{id} answers in the current state.
GetNow(item_id) == read_item(items, item_id).resp

\* C6 (create): after create(title, description, price) returns id, get(id)
\* returns that title and price, and the description null when none was given.
C6_CreateThenGet ==
    last.op = "create" =>
        /\ resp.status = 201
        /\ GetNow(resp.body.id).status = 200
        /\ GetNow(resp.body.id).body.title = last.body.title
        /\ GetNow(resp.body.id).body.price = last.body.price
        /\ GetNow(resp.body.id).body.description = last.body.description

\* C6 (update): after update(id, {price: p2}) succeeds, get(id) returns the
\* title it returned before and price p2.
C6_UpdatePriceThenGet ==
    (last'.op = "update" /\ last'.body.set = {"price"} /\ resp'.status = 200) =>
        /\ read_item(items', last'.id).resp.status = 200
        /\ read_item(items', last'.id).resp.body.title
               = read_item(items, last'.id).resp.body.title
        /\ read_item(items', last'.id).resp.body.price = last'.body.price

\* C6 (delete): every get of an id whose delete succeeded returns not found.
C6_DeletedStaysNotFound ==
    /\ \A id \in deleted : GetNow(id).status = 404
    /\ (last.op = "read" /\ last.id \in deleted) => resp.status = 404

\* C6: the item round trip: create then get, update of the price then get,
\* delete then get.
C6_ItemRoundTrip ==
    /\ [](C6_CreateThenGet /\ C6_DeletedStaysNotFound)
    /\ [][C6_UpdatePriceThenGet]_vars

C6_Witness ==
    /\ last.op = "read" /\ last.id = 1 /\ resp.status = 404
    /\ 1 \in deleted
    /\ Len(items) = 1
    /\ items[1].title = "A" /\ items[1].price = Some(20) /\ items[1].description = Null

\* C8: a successful update-by-id changes, on the item with that id, only the
\* fields the request supplied; that item's other fields and id, every other
\* stored item, the store order and the next identifier stay as they were;
\* the response is the updated record.
C8_UpdateStep ==
    (last'.op = "update" /\ resp'.status = 200) =>
        /\ DOMAIN items' = DOMAIN items
        /\ nextId' = nextId
        /\ \A k \in DOMAIN items :
              IF items[k].id # last'.id
              THEN items'[k] = items[k]
              ELSE /\ items'[k].id = items[k].id
                   /\ \A f \in ItemFields :
                         items'[k][f] = IF f \in last'.body.set
                                        THEN last'.body[f]
                                        ELSE items[k][f]
                   /\ resp'.body = [id |-> items'[k].id, title |-> items'[k].title,
                                    description |-> items'[k].description,
                                    price |-> items'[k].price]

\* C8: every step is a C8_UpdateStep: a partial update changes only the
\* supplied fields of the item with that id and returns the updated record.
C8_PartialUpdateFrame == [][C8_UpdateStep]_vars

C8_Witness ==
    /\ last.op = "update" /\ last.id = 2 /\ last.body.set = {"description"}
    /\ last.body.description = Some("d")
    /\ resp.status = 200
    /\ Len(items) = 2
    /\ items[1].description = Null /\ items[1].title = "A"
    /\ items[2].description = Some("d") /\ items[2].title = "B"
    /\ items[2].price = Some(10)

\* C9: get, update and delete of an id that is not in the store return 404
\* and leave the store unchanged; so does a delete of an id already deleted.
C9_MissingIdStep ==
    (last'.op \in {"read", "update", "delete"} /\ last'.id \notin Ids(items)) =>
        /\ resp'.status = 404
        /\ items' = items
        /\ nextId' = nextId
        /\ deleted' = deleted

\* C9: every step is a C9_MissingIdStep: a get, update or delete of an id not
\* in the store returns 404 and changes nothing.
C9_MissingIdNotFound == [][C9_MissingIdStep]_vars

C9_Witness ==
    /\ last.op = "delete" /\ last.id = 1 /\ resp.status = 404
    /\ 1 \in deleted
    /\ Len(items) = 1

\* C10: list-items with offset skip and limit answers 200 with the records
\* skip+1, skip+2, ... of the store in store order, at most limit of them;
\* on an empty store the answer is the empty sequence.
C10_ListIsWindow ==
    last.op = "list" =>
        /\ resp.status = 200
        /\ Len(resp.body) = Max(0, Min(last.limit, Len(items) - last.skip))
        /\ \A k \in DOMAIN resp.body :
              /\ resp.body[k].id = items[last.skip + k].id
              /\ resp.body[k].title = items[last.skip + k].title
              /\ resp.body[k].description = items[last.skip + k].description
              /\ resp.body[k].price = items[last.skip + k].price
        /\ items = << >> => resp.body = << >>

C10_Witness ==
    /\ last.op = "list" /\ last.skip = 1 /\ last.limit = 1
    /\ Len(items) = 2
    /\ resp.status = 200 /\ Len(resp.body) = 1 /\ resp.body[1].id = items[2].id

\* The scenario of the empty store: skip=0, limit=100.
C10_WitnessEmpty ==
    /\ last.op = "list" /\ last.skip = 0 /\ last.limit = 100
    /\ items = << >> /\ resp.status = 200 /\ resp.body = << >>
\* C11: the ids of the stored items are pairwise distinct.
C11_IdsDistinct == Cardinality(Ids(items)) = Len(items)

\* C11: the id a create answers with is the id of no item that was in the
\* store when the request arrived, and is the id of the record just stored.
C11_CreateStep ==
    (last'.op = "create" /\ resp'.status = 201) =>
        /\ resp'.body.id \notin Ids(items)
        /\ resp'.body.id \in Ids(items')
        /\ Len(items') = Len(items) + 1

\* C11: after any sequence of create, update and delete no two stored items
\* have the same id, and every id returned by create differs from the id of
\* every item present in the store at that moment.
C11_IdsUnique == []C11_IdsDistinct /\ [][C11_CreateStep]_vars

\* A create after a create and a delete: the freed id 1 is not given again.
C11_Witness ==
    /\ last.op = "create" /\ resp.status = 201 /\ resp.body.id = 2
    /\ 1 \in deleted
    /\ Ids(items) = {2}
\* The requests in flight whose simulation has been created, and those whose
\* outputs have been computed, and that are not answered yet.
CreatedInFlight == {s \in Slots : gw[s].pc \in {"step5", "step6", "step7"}}
ComputedInFlight == {s \in Slots : gw[s].pc \in {"step6", "step7"}}

\* C12: nothing is cached or deduplicated: the create_simulation calls made
\* so far are as many as the 200 answers given plus the requests in flight
\* past step 4, and the output computations as many as the 200 answers plus
\* the requests in flight past step 5; so once no request is in flight, n
\* answered submissions have caused exactly n creations and n computations,
\* whether or not two of them carried the same server_capacity.
C12_NoCacheNoDedup ==
    /\ runs.created = runs.answered + Cardinality(CreatedInFlight)
    /\ runs.computed = runs.answered + Cardinality(ComputedInFlight)
    /\ \A s \in Slots :
          (gw[s].pc = "done" /\ gw[s].resp.status = 200) =>
              /\ Cardinality({i \in DOMAIN gw[s].calls :
                                 gw[s].calls[i] = "create_simulation"}) = 1
              /\ Cardinality({i \in DOMAIN gw[s].calls :
                                 gw[s].calls[i] = "get_outputs_and_run_if_absent"}) = 1

\* Two answered requests with the same server_capacity: two creations and two
\* computations.
C12_Witness ==
    /\ \A s \in {1, 2} : gw[s].pc = "done" /\ gw[s].resp.status = 200 /\ gw[s].cap = 5
    /\ runs = [created |-> 2, computed |-> 2, answered |-> 2]
\* C13: the simulation_id identifies the simulation: two distinct requests
\* answered 200 by the gateway over the mock provider never carry the same
\* simulation_id.
C13_SimulationIdUnique ==
    \A s, t \in Slots :
        (/\ s # t
         /\ gw[s].pc = "done" /\ gw[s].resp.status = 200
         /\ gw[t].pc = "done" /\ gw[t].resp.status = 200)
            => gw[s].resp.body.simulation_id # gw[t].resp.body.simulation_id
\* The provider calls of one request, in the order of the handler's steps.
ProviderOrder ==
    <<"get_latest_model_version", "create_inputs_from_experiment", "set_input",
      "create_simulation", "get_outputs_and_run_if_absent">>

IsPrefix(a, b) == Len(a) <= Len(b) /\ \A i \in DOMAIN a : a[i] = b[i]

\* C14: within one submit-simulation request the provider calls made so far
\* are a prefix of: model version lookup, input-set creation, set_input of
\* "Server capacity", simulation creation, output retrieval.  So the
\* simulation is never created before "Server capacity" is set (and, on the
\* mock, the inputs then hold the requested value), outputs are never
\* requested before the simulation is created, and a 200 answer has made all
\* five calls.  This holds for cw3 and for cw2 / hw1.
C14_ProviderStepsInOrder ==
    /\ \A s \in Slots :
          /\ IsPrefix(gw[s].calls, ProviderOrder)
          /\ "create_simulation" \in Elems(gw[s].calls) =>
                /\ KeyServerCapacity \in DOMAIN gw[s].inputs
                /\ gw[s].inputs[KeyServerCapacity] = gw[s].cap
          /\ (gw[s].pc = "done" /\ gw[s].resp.status = 200) =>
                gw[s].calls = ProviderOrder
    /\ IsPrefix(ext.calls, ProviderOrder)
    /\ (ext.pc = "done" /\ ext.resp.status = 200) => ext.calls = ProviderOrder

\* The simulation has been created with "Server capacity" = 3 and its outputs
\* are not requested yet.
C14_Witness ==
    /\ gw[1].pc = "step5" /\ gw[1].cap = 3
    /\ gw[1].calls = SubSeq(ProviderOrder, 1, 4)
    /\ gw[1].inputs[KeyServerCapacity] = 3

\* The same point of a cw2 request.
C14_WitnessExt ==
    /\ ext.pc = "step5" /\ ext.variant = "cw2" /\ ext.cap = 3
    /\ ext.calls = SubSeq(ProviderOrder, 1, 4)
\* What run_simulation answers to server_capacity c when no other request is
\* served: steps 2 to 7 one after the other on a client of its own.
RunAlone(c) ==
    LET inputs == set_input(MockInputs, KeyServerCapacity, c)
        made == create_simulation(get_cloud_client, inputs)
        outputs == get_outputs_and_run_if_absent(made.simulation.inputs)
    IN  Cw3Response(made.simulation.id, c, value(outputs, KeyMeanQueue),
                    value(outputs, KeyUtilization), get_raw_outputs(outputs))

Answered(s) == gw[s].pc = "done" /\ gw[s].resp.status = 200

\* C15: concurrent submit-simulation requests on the mock-backed gateway do
\* not interfere: in every state of every interleaving of their steps, an
\* answered request's server_capacity, mean_queue_size and
\* server_utilization are those the request would get if run alone, and two
\* answered requests with the same server_capacity carry the same three
\* values.
C15_NoInterference ==
    /\ \A s \in Slots :
          Answered(s) =>
              LET body == gw[s].resp.body
                  alone == RunAlone(gw[s].cap)
              IN  /\ body.server_capacity = alone.server_capacity
                  /\ body.mean_queue_size = alone.mean_queue_size
                  /\ body.server_utilization = alone.server_utilization
    /\ \A s, t \in Slots :
          (Answered(s) /\ Answered(t) /\ gw[s].cap = gw[t].cap) =>
              /\ gw[s].resp.body.mean_queue_size = gw[t].resp.body.mean_queue_size
              /\ gw[s].resp.body.server_utilization = gw[t].resp.body.server_utilization

\* Request 1 (server_capacity 2) is answered while request 2 (server_capacity
\* 5) has set its input and created its simulation.
C15_Witness ==
    /\ Answered(1) /\ gw[1].cap = 2
    /\ gw[1].resp.body.mean_queue_size = RunAlone(2).mean_queue_size
    /\ gw[2].pc = "step5" /\ gw[2].cap = 5
    /\ gw[2].inputs[KeyServerCapacity] = 5
=============================================================================
